---- MODULE Spec2Model ----
(***************************************************************************)
(* A model of the Advent of Code 2020 solutions (Rust): the day selector   *)
(* of main.rs and the parsing / search routines of days 1, 2, 7, 8, 13, 16.*)
(* Every unit is independent, so each has its own specification            *)
(* (SpecMain, SpecDay8, ...) over its own variables; the variables of the  *)
(* other units stay at their idle values.                                  *)
(***************************************************************************)
EXTENDS Integers, Sequences, FiniteSets, TLC

VARIABLES
    overflow_checks,  \* build profile: TRUE = arithmetic overflow panics (debug)
    \* ---- main.rs
    day,              \* the i32 read at the prompt
    mpc,              \* position of main: prompt / single / all / done / aborted
    all_i,            \* index of days.iter().enumerate() when running all
    ran,              \* history: the runners called, in call order (1-based days)
    reported,         \* the d of each printed "Invalid Day d", in order
    \* ---- day_8.rs
    program,          \* the program handed to run_program / find_finite_program
    mode8,            \* which entry point is exercised: "run" or "find"
    pc8,              \* idle / running / done / aborted
    find_i,           \* loop index i of find_finite_program
    cand,             \* the program run_program is working on
    pos, acc, visited,\* run_program's locals
    executed,         \* history: positions whose instruction was executed, in order
    result8,          \* ProgramResult of run_program, or Option of find_finite_program
    \* ---- day_1.rs
    ints,             \* the Vec<i32> handed to find_pair_sum / find_triple_sum
    target_sum,       \* the target
    op1,              \* which entry point is exercised: "pair" or "triple"
    pc1,              \* idle / call / done / aborted
    result1,          \* the Option returned
    \* ---- day_2.rs
    policy,           \* the Policy {min, max, letter}
    password,         \* the password, a sequence of letters
    pc2,              \* idle / call / done / aborted
    result2,          \* the bool returned by is_valid_for_part_2
    \* ---- day_13.rs
    bus_ids,          \* the Vec<(usize, usize)> of (index, bus id) pairs
    pc13,             \* idle / call / done / aborted / hung
    result13,         \* the timestamp returned by find_sequential_departure
    \* ---- the line parsers of day_1.rs, day_8.rs and day_16.rs
    parser,           \* "read_to_ints", "parse_lines" or "parse_ticket"
    pcp,              \* idle / reading / done / aborted
    nread,            \* lines taken from input.lines() so far
    out_p,            \* the values collected so far
    skipped,          \* history: lines (fields) that failed to parse so far
    matched_p,        \* history: the values of the lines (fields) in the format
    unfit,            \* history: a line held the day 8 pattern with a number unfit for isize
    malformed,        \* history: lines not in the day's line format so far
    \* ---- day_16.rs get_valid_positions, two runs side by side
    constraints,      \* the HashMap<&str, Constraint>
    ntickets,         \* tickets of `for ticket in tickets` taken so far
    tlen,             \* the length of the tickets (NoLen before the first)
    seen16,           \* history: per position, the values of the valid tickets
    any_valid,        \* history: some ticket was valid
    validity,         \* per run: the HashMap<&str, HashSet<usize>>
    output,           \* per run: the HashMap<&str, usize>
    inserted16,       \* history, per run: the keys in the order they entered output
    pc16,             \* per run: idle / tickets / loop / returned / aborted
    \* ---- day_7.rs find_all_containers, two runs side by side
    nrules,           \* rules of rules.iter() taken so far
    seed,             \* the seed label
    direct_containers,   \* per run: the HashMap<&Label, HashSet<&Label>>
    possible_containers, \* per run: the HashSet<&Label>
    to_check,         \* per run: the LinkedList<&Label>
    popped7,          \* history, per run: the labels popped, in order
    contains7,        \* history: the <<parent, child>> pairs of the rules so far
    pc7,              \* per run: idle / build / search / returned
    \* ---- day_4.rs Passport::is_valid_height
    maybe_hgt,        \* the Option<&str> handed to is_valid_height
    pc4,              \* idle / call / done / aborted
    result4,          \* the bool returned
    \* ---- day_7.rs count_bag_contents
    rules_in,         \* history: the rules handed over so far, as a set
    rule_map,         \* the HashMap<&Label, Vec<(&Label, usize)>>
    outer_bag,        \* the outer bag
    pcc7,             \* idle / build / done / aborted
    count7            \* the usize returned

varsMain == <<day, mpc, all_i, ran, reported>>
varsDay8 == <<program, mode8, pc8, find_i, cand, pos, acc, visited, executed, result8>>
varsDay1 == <<ints, target_sum, op1, pc1, result1>>
varsDay2 == <<policy, password, pc2, result2>>
varsDay13 == <<bus_ids, pc13, result13>>
varsParse == <<parser, pcp, nread, out_p, skipped, matched_p, unfit, malformed>>
varsDay16 == <<constraints, ntickets, tlen, seen16, any_valid, validity, output,
               inserted16, pc16>>
varsDay7 == <<nrules, seed, direct_containers, possible_containers, to_check, popped7,
              contains7, pc7>>
varsHashed == <<varsDay16, varsDay7>>
varsDay4 == <<maybe_hgt, pc4, result4>>
varsCount7 == <<rules_in, rule_map, outer_bag, pcc7, count7>>
vars == <<overflow_checks, varsMain, varsDay8, varsDay1, varsDay2, varsDay13, varsParse,
          varsHashed,
          varsDay4,
          varsCount7>>

\* what each unit leaves alone
restMain == <<overflow_checks, varsDay8, varsDay1, varsDay2, varsDay13, varsParse,
    varsHashed, varsDay4, varsCount7>>
restDay8 == <<overflow_checks, varsMain, varsDay1, varsDay2, varsDay13, varsParse,
    varsHashed, varsDay4, varsCount7>>
restDay1 == <<varsMain, varsDay8, varsDay2, varsDay13, varsParse,
    varsHashed, varsDay4, varsCount7>>
restDay2 == <<varsMain, varsDay8, varsDay1, varsDay13, varsParse,
    varsHashed, varsDay4, varsCount7>>
restDay13 == <<overflow_checks, varsMain, varsDay8, varsDay1, varsDay2, varsParse,
    varsHashed, varsDay4, varsCount7>>
restDay16 == <<overflow_checks, varsMain, varsDay8, varsDay1, varsDay2, varsDay13,
    varsParse, varsDay7, varsDay4, varsCount7>>
restDay7 == <<overflow_checks, varsMain, varsDay8, varsDay1, varsDay2, varsDay13,
    varsParse, varsDay16, varsDay4, varsCount7>>
restDay4 == <<overflow_checks, varsMain, varsDay8, varsDay1, varsDay2,
    varsDay13, varsParse, varsHashed, varsCount7>>
restCount7 == <<overflow_checks, varsMain, varsDay8, varsDay1, varsDay2,
    varsDay13, varsParse, varsHashed, varsDay4>>
restParse == <<overflow_checks, varsMain, varsDay8, varsDay1, varsDay2, varsDay13,
    varsHashed, varsDay4, varsCount7>>

\* ------------------------------------------------------------------------
\* Idle values of each unit's variables
\* ------------------------------------------------------------------------
NoReport == <<>>
NoResult == [tag |-> "PENDING", v |-> 0]

IdleMain ==
    /\ day = 0 /\ mpc = "idle" /\ all_i = 0 /\ ran = <<>> /\ reported = NoReport

IdleDay8 ==
    /\ program = <<>> /\ mode8 = "idle" /\ pc8 = "idle" /\ find_i = 0
    /\ cand = <<>> /\ pos = 0 /\ acc = 0 /\ visited = {} /\ executed = <<>>
    /\ result8 = NoResult

IdleDay1 ==
    /\ ints = <<>> /\ target_sum = 0 /\ op1 = "idle" /\ pc1 = "idle"
    /\ result1 = NoResult

NoPolicy == [min |-> 0, max |-> 0, letter |-> "a"]
IdleDay2 ==
    /\ policy = NoPolicy /\ password = <<>> /\ pc2 = "idle" /\ result2 = FALSE

IdleDay13 == bus_ids = <<>> /\ pc13 = "idle" /\ result13 = 0

IdleParse ==
    /\ parser = "idle" /\ pcp = "idle" /\ nread = 0 /\ out_p = <<>>
    /\ skipped = 0 /\ matched_p = <<>> /\ malformed = 0 /\ unfit = FALSE

\* the two runs of a call that walks a HashMap or HashSet
Runs == {1, 2}
NoLen == 0 - 1
NoMap == [r \in Runs |-> <<>>]
IdleDay16 ==
    /\ constraints = <<>> /\ ntickets = 0 /\ tlen = NoLen /\ seen16 = <<>>
    /\ any_valid = FALSE /\ validity = NoMap /\ output = NoMap
    /\ inserted16 = NoMap /\ pc16 = [r \in Runs |-> "idle"]
IdleDay7 ==
    /\ nrules = 0 /\ seed = "" /\ direct_containers = NoMap
    /\ possible_containers = [r \in Runs |-> {}] /\ to_check = NoMap
    /\ popped7 = NoMap /\ contains7 = {} /\ pc7 = [r \in Runs |-> "idle"]
IdleCount7 ==
    /\ rules_in = {} /\ rule_map = <<>> /\ outer_bag = "" /\ pcc7 = "idle"
    /\ count7 = 0
NoHgt == [some |-> FALSE, s |-> <<>>]
IdleDay4 == maybe_hgt = NoHgt /\ pc4 = "idle" /\ result4 = FALSE

\* ========================================================================
\* main.rs : the day selector
\* ========================================================================
NumDays == 17
MaxProbe == 2
I32_MAX == 2147483647
I32_MIN == (-I32_MAX) - 1

\* The values of `day` tried: around the valid range, and the i32 extremes.
DayInputs == ((0 - MaxProbe) .. (NumDays + MaxProbe)) \cup {I32_MIN, I32_MAX}

\* `day - 1` on i32 overflows only for i32::MIN.
SubOverflows(d) == d = I32_MIN
WrappingSub1(d) == IF d = I32_MIN THEN I32_MAX ELSE d - 1

\* days.get((day - 1) as usize): a negative i32 casts to a usize >= 2^64 - 2^31,
\* which is past the end of the 17-element vector like every index >= 17.
DaysGet(x) == x >= 0 /\ x < NumDays

InitMain ==
    /\ overflow_checks \in BOOLEAN
    /\ day \in DayInputs
    /\ mpc = "prompt" /\ all_i = 0 /\ ran = <<>> /\ reported = NoReport
    /\ IdleDay8 /\ IdleDay1 /\ IdleDay2 /\ IdleDay13 /\ IdleParse
    /\ IdleDay16 /\ IdleDay7 /\ IdleDay4 /\ IdleCount7

\* main.rs:57-66, the match on days.get(..)
Dispatch ==
    /\ mpc = "prompt"
    /\ IF SubOverflows(day) /\ overflow_checks
       THEN mpc' = "aborted" /\ UNCHANGED <<all_i, ran, reported>>
       ELSE IF DaysGet(WrappingSub1(day))
            THEN mpc' = "single" /\ UNCHANGED <<all_i, ran, reported>>
            ELSE IF day = 0
                 THEN mpc' = "all" /\ all_i' = 0 /\ UNCHANGED <<ran, reported>>
                 ELSE /\ reported' = Append(reported, day)
                      /\ mpc' = "done"
                      /\ UNCHANGED <<all_i, ran>>
    /\ UNCHANGED <<day, restMain>>

\* Some(solution) => solution(): the runner returns, or panics (every run()
\* starts with fs::read_to_string(..).expect("Failed to read file")).
RunSelected ==
    /\ mpc = "single"
    /\ ran' = Append(ran, WrappingSub1(day) + 1)
    /\ \E returns \in BOOLEAN : mpc' = IF returns THEN "done" ELSE "aborted"
    /\ UNCHANGED <<day, all_i, reported, restMain>>

\* days.iter().enumerate().for_each(..): one closure call per step
RunEach ==
    /\ mpc = "all"
    /\ all_i < NumDays
    /\ ran' = Append(ran, all_i + 1)
    /\ \E returns \in BOOLEAN :
          IF returns THEN all_i' = all_i + 1 /\ mpc' = mpc
                     ELSE all_i' = all_i /\ mpc' = "aborted"
    /\ UNCHANGED <<day, reported, restMain>>

FinishAll ==
    /\ mpc = "all"
    /\ all_i = NumDays
    /\ mpc' = "done"
    /\ UNCHANGED <<day, all_i, ran, reported, restMain>>

NextMain == Dispatch \/ RunSelected \/ RunEach \/ FinishAll

SpecMain == InitMain /\ [][NextMain]_vars

\* ---- Claims about main ---------------------------------------------------
MainEnded == mpc \in {"done", "aborted"}
AllDays == [k \in 1..NumDays |-> k]

\* C2: for every integer d read at the prompt, main runs exactly day d's runner
\* once when 1 <= d <= 17, all 17 runners once each in ascending order when
\* d = 0, and otherwise no runner, reporting "Invalid Day d".
C2_SelectorRunsExactly ==
    MainEnded =>
        IF day >= 1 /\ day <= NumDays
        THEN ran = <<day>> /\ reported = NoReport
        ELSE IF day = 0
             THEN ran = AllDays /\ reported = NoReport
             ELSE ran = <<>> /\ reported = <<day>>

\* ========================================================================
\* day_8.rs : run_program and find_finite_program
\* ========================================================================
MaxProg == 3
MaxArg == 2

Ops == {"ACC", "JMP", "NOP"}
Instruction == [op : Ops, v : (0 - MaxArg) .. MaxArg]
ProgramInputs == UNION {[1..n -> Instruction] : n \in 0..MaxProg}

COMPLETE(a) == [tag |-> "COMPLETE", v |-> a]
INFINITE(a) == [tag |-> "INFINITE", v |-> a]
SomeV(a) == [tag |-> "Some", v |-> a]
NoneV == [tag |-> "None", v |-> 0]

\* program.get(pos): positions are 0-based usize. A negative value here stands
\* for the wrapped result of `(pos as isize + v) as usize`, at least 2^63 and
\* so past the end of every program: get returns None for it.
HasInstruction(p, at) == at >= 0 /\ at < Len(p)
Get(p, at) == p[at + 1]

\* program.update(i, instr) of im::Vector: a copy with position i replaced
Update(p, i, instr) == [p EXCEPT ![i + 1] = instr]

\* the loop condition of run_program: !visited.contains(&pos)
LoopCondNeverStops(seen, at) == TRUE
LoopCond(seen, at) == at \notin seen

\* the next position and accumulator of one executed instruction
StepPos(instr, at) ==
    CASE instr.op = "ACC" -> at + 1
      [] instr.op = "JMP" -> at + instr.v
      [] instr.op = "NOP" -> at + 1
StepAcc(instr, a) == IF instr.op = "ACC" THEN a + instr.v ELSE a

\* find_finite_program: INFINITE(_) => (), the for loop goes on with i + 1
ContinueSearchGivesUp(p, i) == Len(p)
ContinueSearch(p, i) == i + 1

InitDay8 ==
    /\ overflow_checks = FALSE
    /\ IdleMain /\ IdleDay1 /\ IdleDay2 /\ IdleDay13 /\ IdleParse
    /\ IdleDay16 /\ IdleDay7 /\ IdleDay4 /\ IdleCount7
    /\ program \in ProgramInputs
    /\ mode8 \in {"run", "find"}
    /\ pc8 = "call" /\ find_i = 0
    /\ cand = <<>> /\ pos = 0 /\ acc = 0 /\ visited = {} /\ executed = <<>>
    /\ result8 = NoResult

\* run_program(&program) called directly (day_8.rs:25, 46-49)
EnterRunProgram ==
    /\ mode8 = "run" /\ pc8 = "call"
    /\ cand' = program
    /\ pos' = 0 /\ acc' = 0 /\ visited' = {} /\ executed' = <<>>
    /\ pc8' = "running"
    /\ UNCHANGED <<program, mode8, find_i, result8, restDay8>>

\* find_finite_program(&program) called (day_8.rs:71-72)
EnterFind ==
    /\ mode8 = "find" /\ pc8 = "call"
    /\ find_i' = 0
    /\ pc8' = "find"
    /\ UNCHANGED <<program, mode8, cand, pos, acc, visited, executed, result8,
                   restDay8>>

\* one iteration of `for i in 0..program.len()` up to the call of run_program,
\* or the loop's end (day_8.rs:72-77, 85)
FindNext ==
    /\ mode8 = "find" /\ pc8 = "find"
    /\ IF find_i >= Len(program)
       THEN /\ result8' = NoneV
            /\ pc8' = "done"
            /\ UNCHANGED <<find_i, cand, pos, acc, visited, executed>>
       ELSE LET instr == Get(program, find_i) IN
            IF instr.op \in {"JMP", "NOP"}
            THEN /\ cand' = Update(program, find_i,
                                   [op |-> IF instr.op = "JMP" THEN "NOP" ELSE "JMP",
                                    v |-> instr.v])
                 /\ pos' = 0 /\ acc' = 0 /\ visited' = {} /\ executed' = <<>>
                 /\ pc8' = "running"
                 /\ UNCHANGED <<find_i, result8>>
            ELSE \* _ => INFINITE(0), which the second match ignores
                 /\ find_i' = ContinueSearch(program, find_i)
                 /\ UNCHANGED <<pc8, cand, pos, acc, visited, executed, result8>>
    /\ UNCHANGED <<program, mode8, restDay8>>

\* run_program returns r: to the caller of run_program, or into the second
\* match of find_finite_program (day_8.rs:79-82)
Return(r) ==
    IF mode8 = "run"
    THEN /\ result8' = r
         /\ pc8' = "done"
         /\ UNCHANGED find_i
    ELSE IF r.tag = "COMPLETE"
         THEN /\ result8' = SomeV(r.v)
              /\ pc8' = "done"
              /\ UNCHANGED find_i
         ELSE /\ find_i' = ContinueSearch(program, find_i)
              /\ pc8' = "find"
              /\ UNCHANGED result8

\* one test of the while condition and, if it holds, one pass of the body
\* (day_8.rs:51-68)
RunStep ==
    /\ pc8 = "running"
    /\ IF LoopCond(visited, pos)
       THEN /\ visited' = visited \cup {pos}
            /\ IF pos = Len(cand)
               THEN /\ Return(COMPLETE(acc))
                    /\ UNCHANGED <<pos, acc, executed>>
               ELSE IF HasInstruction(cand, pos)
                    THEN /\ acc' = StepAcc(Get(cand, pos), acc)
                         /\ pos' = StepPos(Get(cand, pos), pos)
                         /\ executed' = Append(executed, pos)
                         /\ UNCHANGED <<pc8, find_i, result8>>
                    ELSE \* None => panic!("No instruction at position {}")
                         /\ pc8' = "aborted"
                         /\ UNCHANGED <<pos, acc, executed, find_i, result8>>
       ELSE /\ Return(INFINITE(acc))
            /\ UNCHANGED <<pos, acc, visited, executed>>
    /\ UNCHANGED <<program, mode8, cand, restDay8>>

NextDay8 == EnterRunProgram \/ EnterFind \/ FindNext \/ RunStep

SpecDay8 == InitDay8 /\ [][NextDay8]_vars

\* ---- Claims about day 8 --------------------------------------------------
RECURSIVE RefRun(_, _, _, _)
\* The run of program p from position `at` with accumulator a, as the claims
\* word it: COMPLETE at position len, INFINITE on returning to a position
\* already executed, ABORT on leaving 0..len.
RefRun(p, at, a, seen) ==
    IF at \in seen THEN [tag |-> "INFINITE", v |-> a]
    ELSE IF at = Len(p) THEN [tag |-> "COMPLETE", v |-> a]
    ELSE IF at < 0 \/ at > Len(p) THEN [tag |-> "ABORT", v |-> 0]
    ELSE LET ins == p[at + 1] IN
         RefRun(p,
                IF ins.op = "JMP" THEN at + ins.v ELSE at + 1,
                IF ins.op = "ACC" THEN a + ins.v ELSE a,
                seen \cup {at})

RefSwapped(p, i) ==
    [p EXCEPT ![i + 1] = [op |-> IF @.op = "JMP" THEN "NOP" ELSE "JMP", v |-> @.v]]
Swappable(p) == {i \in 0 .. Len(p) - 1 : p[i + 1].op \in {"JMP", "NOP"}}
RefSwapRun(p, i) == RefRun(RefSwapped(p, i), 0, 0, {})
Completing(p) == {i \in Swappable(p) : RefSwapRun(p, i).tag = "COMPLETE"}
Aborting(p) == {i \in Swappable(p) : RefSwapRun(p, i).tag = "ABORT"}
MinOf(S) == CHOOSE x \in S : \A y \in S : x <= y

FindEnded == mode8 = "find" /\ pc8 \in {"done", "aborted"}

\* C8 (as stated): for every program find_finite_program returns Some(v), v the
\* COMPLETE accumulator of the swap at the lowest index whose swap completes,
\* and None exactly when no single swap completes; every candidate that does
\* not complete is skipped.
C8_FindSkipsEveryFailure ==
    FindEnded =>
        /\ pc8 = "done"
        /\ result8 = IF Completing(program) = {}
                     THEN NoneV
                     ELSE SomeV(RefSwapRun(program, MinOf(Completing(program))).v)

\* C8 (amended): the swaps are tried in ascending index order up to the first
\* one that does not loop: Some(v) if that one completes, an abort if it leaves
\* 0..len, and None exactly when every swapped program loops.
C8_FindStopsAtFirstNonLoop ==
    FindEnded =>
        LET stops == Completing(program) \cup Aborting(program) IN
        IF stops = {}
        THEN pc8 = "done" /\ result8 = NoneV
        ELSE IF MinOf(stops) \in Completing(program)
             THEN /\ pc8 = "done"
                  /\ result8 = SomeV(RefSwapRun(program, MinOf(stops)).v)
                  /\ find_i = MinOf(stops)
             ELSE /\ pc8 = "aborted"
                  /\ find_i = MinOf(stops)
                  /\ result8 = NoResult

\* a search that skipped a looping candidate and then found a completing one
C8_Witness ==
    /\ FindEnded /\ pc8 = "done"
    /\ result8.tag = "Some" /\ result8.v # 0
    /\ \E j \in Swappable(program) :
          j < find_i /\ RefSwapRun(program, j).tag = "INFINITE"

JumpsInRange(p) ==
    \A k \in 1 .. Len(p) :
        p[k].op = "JMP" => (k - 1 + p[k].v >= 0 /\ k - 1 + p[k].v <= Len(p))
NoDup(s) == \A a \in 1 .. Len(s), b \in 1 .. Len(s) : s[a] = s[b] => a = b
RECURSIVE SumAcc(_, _)
SumAcc(p, path) ==
    IF path = <<>> THEN 0
    ELSE LET ins == p[path[1] + 1] IN
         (IF ins.op = "ACC" THEN ins.v ELSE 0) + SumAcc(p, Tail(path))
SeqRange(s) == {s[k] : k \in 1 .. Len(s)}

\* C9: for every program whose jumps stay within 0..len, run_program starts at
\* position 0 with accumulator 0, never executes an instruction twice, never
\* aborts, and returns COMPLETE(acc) exactly when control reaches len and
\* INFINITE(acc) exactly when control returns to an executed position.
C9_RunProgram ==
    (mode8 = "run" /\ pc8 \in {"running", "done", "aborted"} /\ JumpsInRange(program)) =>
        /\ pc8 # "aborted"
        /\ executed = <<>> => (pos = 0 /\ acc = 0)
        /\ executed # <<>> => executed[1] = 0
        /\ acc = SumAcc(program, executed)
        /\ NoDup(executed)
        /\ \A k \in 1 .. Len(executed) : executed[k] >= 0 /\ executed[k] < Len(program)
        /\ pc8 = "done" =>
              /\ result8.tag \in {"COMPLETE", "INFINITE"}
              /\ result8.v = acc
              /\ result8.tag = "COMPLETE" <=> pos = Len(program)
              /\ result8.tag = "INFINITE" <=> pos \in SeqRange(executed)
              /\ result8 = RefRun(program, 0, 0, {})

\* a looping run that executed several instructions, one of them an ACC
C9_Witness ==
    /\ mode8 = "run" /\ pc8 = "done" /\ JumpsInRange(program)
    /\ result8.tag = "INFINITE" /\ result8.v # 0
    /\ Len(executed) >= 2

\* ========================================================================
\* day_1.rs : find_pair_sum and find_triple_sum
\* ========================================================================
MaxLen == 4
MaxVal == 3
MaxNeg == 1

IntVals == (0 - MaxNeg) .. MaxVal
IntLists == UNION {[1..n -> IntVals] : n \in 0..MaxLen}
Targets == (0 - 2 * MaxNeg) .. (3 * MaxVal)

Some1(t) == [tag |-> "Some", v |-> t]
None1 == [tag |-> "None", v |-> <<>>]
\* a panic (expect on None, arithmetic overflow) or a stack overflow
Abort1 == [tag |-> "Abort", v |-> <<>>]

\* A usize subtraction that wrapped around stands at UsizeTop - k for a small
\* k: all that the code does with such a value is halve it and index with it,
\* and it stays past the end of every vector of the model either way.
UsizeTop == 2 ^ 20 - 1
USub(a, b) ==
    IF a >= b THEN [ok |-> TRUE, v |-> a - b]
    ELSE IF overflow_checks THEN [ok |-> FALSE, v |-> 0]
    ELSE [ok |-> TRUE, v |-> UsizeTop - (b - a) + 1]

\* ints.get(i) on a 0-based usize index
InVec(xs, i) == i >= 0 /\ i < Len(xs)
At(xs, i) == xs[i + 1]

\* ints.sort()
Sorted(xs) == SortSeq(xs, LAMBDA a, b : a < b)

Idx(i) == [ok |-> TRUE, idx |-> i]
IdxAbort == [ok |-> FALSE, idx |-> 0]

RECURSIVE find_new_bound(_, _, _, _)
find_new_bound(xs, target_number, min_idx, max_idx) ==
    LET mid_idx == (min_idx + max_idx) \div 2 IN
    IF mid_idx = min_idx THEN Idx(min_idx)
    ELSE IF ~InVec(xs, mid_idx) THEN IdxAbort        \* expect("mid out of range")
    ELSE IF At(xs, mid_idx) > target_number
         THEN IF mid_idx = max_idx
              THEN IdxAbort  \* recursion on the same arguments: stack overflow
              ELSE find_new_bound(xs, target_number, min_idx, mid_idx)
         ELSE find_new_bound(xs, target_number, mid_idx, max_idx)

RECURSIVE find_pair_sum_iter(_, _, _, _)
find_pair_sum_iter(xs, t, min_idx, max_idx) ==
    IF ~InVec(xs, min_idx) \/ ~InVec(xs, max_idx) THEN Abort1
    ELSE
    LET min == At(xs, min_idx)
        max == At(xs, max_idx)
    IN  IF min + max = t THEN Some1(<<min, max>>)
        ELSE
        LET nb == find_new_bound(xs, t - min, min_idx + 1, max_idx) IN
        IF ~nb.ok \/ ~InVec(xs, nb.idx) THEN Abort1
        ELSE
        LET new_max_idx == nb.idx
            new_max == At(xs, nb.idx)
        IN  IF min + new_max = t THEN Some1(<<min, new_max>>)
            ELSE
            LET hi == USub(new_max_idx, 1) IN
            IF ~hi.ok THEN Abort1
            ELSE
            LET lb == find_new_bound(xs, t - new_max, min_idx, hi.v) IN
            IF ~lb.ok THEN Abort1
            ELSE IF lb.idx + 1 >= new_max_idx THEN None1
            ELSE find_pair_sum_iter(xs, t, lb.idx, new_max_idx)

\* find_pair_sum after the sort
find_pair_sum(xs, t) ==
    LET max == USub(Len(xs), 1) IN
    IF ~max.ok THEN Abort1 ELSE find_pair_sum_iter(xs, t, 0, max.v)

\* the while loop of find_triple_sum from index i on
RECURSIVE triple_loop(_, _, _, _, _)
triple_loop(xs, t, i, bound, max) ==
    IF ~(i < bound) THEN None1
    ELSE IF ~InVec(xs, i) THEN Abort1                \* expect("i out of range")
    ELSE
    LET a == At(xs, i)
        result == find_pair_sum_iter(xs, t - a, i + 1, max)
    IN  IF result.tag = "Abort" THEN Abort1
        ELSE IF result.tag = "Some" THEN Some1(<<a, result.v[1], result.v[2]>>)
        ELSE triple_loop(xs, t, i + 1, bound, max)

\* find_triple_sum after the sort
find_triple_sum(xs, t) ==
    LET max == USub(Len(xs), 1)
        bound == USub(Len(xs), 3)
    IN  IF ~max.ok \/ ~bound.ok THEN Abort1
        ELSE triple_loop(xs, t, 0, bound.v, max.v)

InitDay1 ==
    /\ overflow_checks \in BOOLEAN
    /\ IdleMain /\ IdleDay8 /\ IdleDay2 /\ IdleDay13 /\ IdleParse
    /\ IdleDay16 /\ IdleDay7 /\ IdleDay4 /\ IdleCount7
    /\ ints \in IntLists
    /\ target_sum \in Targets
    /\ op1 \in {"pair", "triple"}
    /\ pc1 = "call"
    /\ result1 = NoResult

Finish1(r) ==
    /\ result1' = r
    /\ pc1' = IF r.tag = "Abort" THEN "aborted" ELSE "done"

\* find_pair_sum(&mut ints, target_sum): sorts in place, then searches
FindPairSum ==
    /\ op1 = "pair" /\ pc1 = "call"
    /\ ints' = Sorted(ints)
    /\ Finish1(find_pair_sum(Sorted(ints), target_sum))
    /\ UNCHANGED <<overflow_checks, target_sum, op1, restDay1>>

\* find_triple_sum(&mut ints, target_sum)
FindTripleSum ==
    /\ op1 = "triple" /\ pc1 = "call"
    /\ ints' = Sorted(ints)
    /\ Finish1(find_triple_sum(Sorted(ints), target_sum))
    /\ UNCHANGED <<overflow_checks, target_sum, op1, restDay1>>

NextDay1 == FindPairSum \/ FindTripleSum

SpecDay1 == InitDay1 /\ [][NextDay1]_vars

\* ---- Claims about day 1 --------------------------------------------------
Ended1 == pc1 \in {"done", "aborted"}
HasPair(xs, t) ==
    \E i \in 1 .. Len(xs), j \in 1 .. Len(xs) : i # j /\ xs[i] + xs[j] = t
HasTriple(xs, t) ==
    \E i \in 1 .. Len(xs), j \in 1 .. Len(xs), k \in 1 .. Len(xs) :
        i # j /\ i # k /\ j # k /\ xs[i] + xs[j] + xs[k] = t

\* C4: for every non-empty list and every target, find_pair_sum returns
\* Some((a, b)) exactly when two entries at different positions sum to the
\* target, with a <= b, a + b = target and a, b two such entries, and None
\* exactly when there are no two such entries.
C4_FindPairSum ==
    (op1 = "pair" /\ Ended1 /\ Len(ints) >= 1) =>
        /\ result1.tag = IF HasPair(ints, target_sum) THEN "Some" ELSE "None"
        /\ result1.tag = "Some" =>
              /\ result1.v[1] <= result1.v[2]
              /\ result1.v[1] + result1.v[2] = target_sum
              /\ \E i \in 1 .. Len(ints), j \in 1 .. Len(ints) :
                    i # j /\ ints[i] = result1.v[1] /\ ints[j] = result1.v[2]

\* C5: for every list of at least three integers and every target,
\* find_triple_sum returns Some((a, b, c)) exactly when three entries at three
\* different positions sum to the target (a <= b <= c, a + b + c = target),
\* and None exactly when there are none.
C5_FindTripleSum ==
    (op1 = "triple" /\ Ended1 /\ Len(ints) >= 3) =>
        /\ result1.tag = IF HasTriple(ints, target_sum) THEN "Some" ELSE "None"
        /\ result1.tag = "Some" =>
              /\ result1.v[1] <= result1.v[2] /\ result1.v[2] <= result1.v[3]
              /\ result1.v[1] + result1.v[2] + result1.v[3] = target_sum

\* ========================================================================
\* day_2.rs : is_valid_for_part_2
\* ========================================================================
MaxPos == 3
MaxPw == 4

Letters == {"a", "b", "c"}
Policies == [min : 0 .. MaxPos, max : 0 .. MaxPos, letter : {"a", "b"}]
Passwords == UNION {[1..n -> Letters] : n \in 0 .. MaxPw}

\* Iterator::nth(n) on password.chars(): skips n characters and yields the
\* next one, or yields None once the iterator is exhausted.
NthIsSome(rest, n) == n < Len(rest)
NthChar(rest, n) == rest[n + 1]
NthRest(rest, n) == IF n < Len(rest) THEN SubSeq(rest, n + 2, Len(rest)) ELSE <<>>

Bool2(b) == [tag |-> "Bool", v |-> b]
Abort2 == [tag |-> "Abort", v |-> FALSE]

\* the early return of is_valid_for_part_2 (day_2.rs:107-109)
TooShort(pol, pw) == Len(pw) < pol.max

\* the returned expression (day_2.rs:116)
ExactlyOne(a, b, letter) == a # b /\ (a = letter \/ b = letter)

is_valid_for_part_2(pol, pw) ==
    IF TooShort(pol, pw) THEN Bool2(FALSE)
    ELSE
    LET n1 == USub(pol.min, 1) IN
    IF ~n1.ok \/ ~NthIsSome(pw, n1.v) THEN Abort2        \* overflow, or unwrap on None
    ELSE
    LET a == NthChar(pw, n1.v)
        chars == NthRest(pw, n1.v)
        d == USub(pol.max, pol.min)
    IN  IF ~d.ok THEN Abort2
        ELSE
        LET n2 == USub(d.v, 1) IN
        IF ~n2.ok \/ ~NthIsSome(chars, n2.v) THEN Abort2
        ELSE Bool2(ExactlyOne(a, NthChar(chars, n2.v), pol.letter))

InitDay2 ==
    /\ overflow_checks \in BOOLEAN
    /\ IdleMain /\ IdleDay8 /\ IdleDay1 /\ IdleDay13 /\ IdleParse
    /\ IdleDay16 /\ IdleDay7 /\ IdleDay4 /\ IdleCount7
    /\ policy \in Policies
    /\ password \in Passwords
    /\ pc2 = "call"
    /\ result2 = FALSE

IsValidForPart2 ==
    /\ pc2 = "call"
    /\ LET r == is_valid_for_part_2(policy, password) IN
          /\ result2' = r.v
          /\ pc2' = IF r.tag = "Abort" THEN "aborted" ELSE "done"
    /\ UNCHANGED <<overflow_checks, policy, password, restDay2>>

NextDay2 == IsValidForPart2

SpecDay2 == InitDay2 /\ [][NextDay2]_vars

\* ---- Claims about day 2 --------------------------------------------------
\* the 1-based position p of the password holds the policy letter
Holds(p) == p >= 1 /\ p <= Len(password) /\ password[p] = policy.letter

\* C10: for every policy with 1 <= min <= max and every lowercase password,
\* is_valid_for_part_2 returns true exactly when exactly one of the 1-based
\* positions min and max holds the policy letter (a position past the end
\* holds no letter), and false otherwise.
C10_ExactlyOnePosition ==
    (pc2 \in {"done", "aborted"} /\ policy.min >= 1 /\ policy.min <= policy.max) =>
        /\ pc2 = "done"
        /\ result2 = (Holds(policy.min) # Holds(policy.max))

\* ========================================================================
\* day_13.rs : find_sequential_departure
\* ========================================================================
MaxBuses == 3
MaxIdx == 4
MaxId == 5

\* parse_input: the indices come from enumerate(), so they ascend strictly;
\* bus ids are at least 1 (an id of 0 divides by zero in next_departure).
BusPairs == (0 .. MaxIdx) \X (1 .. MaxId)
BusLists ==
    {l \in UNION {[1..n -> BusPairs] : n \in 0 .. MaxBuses} :
        \A k \in 1 .. Len(l) - 1 : l[k][1] < l[k + 1][1]}

next_departure(timestamp, bus_id) ==
    IF timestamp = 0 THEN 0
    ELSE ((timestamp - 1) \div bus_id + 1) * bus_id - timestamp

\* the test inside the loop of find_sequential_departure_iter for the
\* position k * period_a (day_13.rs:137-145)
Confluence(a, b, position) ==
    /\ position >= a[1]
    /\ next_departure(position - a[1], b[2]) = b[1] % b[2]

\* Whether the loop ever breaks. The test depends on the position modulo
\* period_b only, so a confluence among period_b successive positions past
\* offset_a comes back forever, and none among them means none ever: the loop
\* then never ends.
LoopEnds(a, b) ==
    \E k \in 1 .. (a[1] \div a[2] + 1 + b[2]) : Confluence(a, b, k * a[2])

RECURSIVE confluence_loop(_, _, _, _)
\* the loop (day_13.rs:136-153): the first and second timestamp it leaves with
confluence_loop(a, b, position, first_timestamp) ==
    LET position1 == position + a[2] IN
    IF position1 < a[1]
    THEN confluence_loop(a, b, position1, first_timestamp)
    ELSE LET base_offset == position1 - a[1] IN
         IF next_departure(base_offset, b[2]) = b[1] % b[2]
         THEN IF first_timestamp = 0
              THEN confluence_loop(a, b, position1, base_offset)
              ELSE [first |-> first_timestamp, second |-> base_offset]
         ELSE confluence_loop(a, b, position1, first_timestamp)

Val13(t) == [tag |-> "Val", v |-> t]
Hang13 == [tag |-> "Hang", v |-> 0]
Abort13 == [tag |-> "Abort", v |-> 0]

\* None => new_period - new_offset (day_13.rs:164)
FinalTimestamp(new_period, new_offset) == new_period - new_offset

RECURSIVE find_sequential_departure_iter(_, _, _)
find_sequential_departure_iter(acc13, next, remaining_bus_ids) ==
    IF acc13[2] < next[2]
    THEN find_sequential_departure_iter(next, acc13, remaining_bus_ids)
    ELSE IF ~LoopEnds(acc13, next) THEN Hang13
    ELSE
    LET both == confluence_loop(acc13, next, 0, 0)
        new_period == both.second - both.first
        new_offset == next_departure(both.second, new_period)
    IN  IF remaining_bus_ids = <<>>
        THEN Val13(FinalTimestamp(new_period, new_offset))
        ELSE find_sequential_departure_iter(<<new_offset, new_period>>,
                                            Head(remaining_bus_ids),
                                            Tail(remaining_bus_ids))

find_sequential_departure(ids) ==
    IF ids = <<>> THEN Abort13                        \* expect("First bus id empty")
    ELSE find_sequential_departure_iter(<<0, 1>>, Head(ids), Tail(ids))

InitDay13 ==
    /\ overflow_checks = FALSE
    /\ IdleMain /\ IdleDay8 /\ IdleDay1 /\ IdleDay2 /\ IdleParse
    /\ IdleDay16 /\ IdleDay7 /\ IdleDay4 /\ IdleCount7
    /\ bus_ids \in BusLists
    /\ pc13 = "call"
    /\ result13 = 0

FindSequentialDeparture ==
    /\ pc13 = "call"
    /\ LET r == find_sequential_departure(bus_ids) IN
          /\ result13' = r.v
          /\ pc13' = CASE r.tag = "Val" -> "done"
                       [] r.tag = "Hang" -> "hung"
                       [] r.tag = "Abort" -> "aborted"
    /\ UNCHANGED <<bus_ids, restDay13>>

NextDay13 == FindSequentialDeparture

SpecDay13 == InitDay13 /\ [][NextDay13]_vars

\* ---- Claims about day 13 -------------------------------------------------
RECURSIVE Gcd(_, _)
Gcd(x, y) == IF y = 0 THEN x ELSE Gcd(y, x % y)
PairwiseCoprime(l) ==
    \A i \in 1 .. Len(l), j \in 1 .. Len(l) : i # j => Gcd(l[i][2], l[j][2]) = 1
RECURSIVE Product(_)
Product(l) == IF l = <<>> THEN 1 ELSE Head(l)[2] * Product(Tail(l))
Departs(l, t) == \A k \in 1 .. Len(l) : (t + l[k][1]) % l[k][2] = 0

\* C6: for every non-empty list of (index, bus id) pairs with pairwise coprime
\* ids >= 1, find_sequential_departure returns the earliest timestamp t >= 0
\* with (t + index) mod id = 0 for every pair.
C6_EarliestDeparture ==
    (pc13 \in {"done", "aborted", "hung"} /\ bus_ids # <<>> /\ PairwiseCoprime(bus_ids)) =>
        /\ pc13 = "done"
        /\ Departs(bus_ids, result13)
        /\ \A t \in 0 .. result13 - 1 : ~Departs(bus_ids, t)

\* the same with "earliest t >= 1"
C6_EarliestPositive ==
    (pc13 \in {"done", "aborted", "hung"} /\ bus_ids # <<>> /\ PairwiseCoprime(bus_ids)) =>
        /\ pc13 = "done"
        /\ result13 >= 1
        /\ Departs(bus_ids, result13)
        /\ \A t \in 1 .. result13 - 1 : ~Departs(bus_ids, t)

\* ========================================================================
\* The line parsers: day_1.rs read_to_ints, day_8.rs parse_lines,
\* day_16.rs parse_ticket
\* ========================================================================
\* A line is a sequence of symbols: the characters "1" "2" "+" "-" "," "x"
\* (x: any other character), "sp" (a space), the words "acc" and "jmp" (each
\* standing for its three letters), and "BIG", a run of digits too long for
\* the integer type it is parsed into (such as twenty 9s).
MaxLinesP == 2
MaxLineLen == 4

Digits == {"1", "2"}
DigitRun == Digits \cup {"BIG"}
Chars1 == {"1", "+", "-", "x", "BIG"}
Toks8 == {"acc", "jmp", "sp", "-", "1", "x", "BIG"}
Chars16 == {"1", "2", ",", "+", "-", "x"}
LinesOver(alphabet) == UNION {[1..n -> alphabet] : n \in 0 .. MaxLineLen}

Ok(x) == [ok |-> TRUE, v |-> x]
Err == [ok |-> FALSE, v |-> 0]

RECURSIVE DecVal(_, _)
\* the value of a run of decimal digits, most significant first
DecVal(ds, sofar) ==
    IF ds = <<>> THEN sofar
    ELSE DecVal(Tail(ds), 10 * sofar + (IF Head(ds) = "1" THEN 1 ELSE 2))

AllIn(str, set) == \A k \in 1 .. Len(str) : str[k] \in set

\* str.parse::<i32>() and str.parse::<isize>(): an optional sign, then at
\* least one digit, nothing else, and the value has to fit
ParseSigned(str) ==
    LET signed == str # <<>> /\ str[1] \in {"+", "-"}
        body == IF signed THEN Tail(str) ELSE str
    IN  IF body = <<>> \/ ~AllIn(body, Digits) THEN Err
        ELSE Ok(IF str[1] = "-" THEN 0 - DecVal(body, 0) ELSE DecVal(body, 0))

\* str.parse::<usize>(): an optional "+", then at least one digit
ParseUnsigned(str) ==
    LET body == IF str # <<>> /\ str[1] = "+" THEN Tail(str) ELSE str
    IN  IF body = <<>> \/ ~AllIn(body, Digits) THEN Err
        ELSE Ok(DecVal(body, 0))

\* flat_map over an Option / Result: a None or Err contributes nothing
FlatMapDefaults(sofar, r) == Append(sofar, r.v)
FlatMap(sofar, r) == IF r.ok THEN Append(sofar, r.v) ELSE sofar

\* ---- day 8: the regex (acc|jmp|nop) ([+-]\d+), searched anywhere in the line
MatchesAt(line, i) ==
    /\ i + 3 <= Len(line)
    /\ line[i] \in {"acc", "jmp"}
    /\ line[i + 1] = "sp"
    /\ line[i + 2] \in {"+", "-"}
    /\ line[i + 3] \in DigitRun

RECURSIVE DigitsEnd(_, _)
\* \d+ is greedy: the last position of the digit run that starts at i
DigitsEnd(line, i) ==
    IF i + 1 <= Len(line) /\ line[i + 1] \in DigitRun
    THEN DigitsEnd(line, i + 1) ELSE i

RECURSIVE Captures(_, _)
\* re.captures(line): the leftmost match from position i on, or None
Captures(line, i) ==
    IF i > Len(line) THEN Err
    ELSE IF MatchesAt(line, i)
         THEN Ok([op |-> line[i],
                  num |-> SubSeq(line, i + 2, DigitsEnd(line, i + 3))])
         ELSE Captures(line, i + 1)

\* the closure of .map(..): the instruction of a match, or the panic of
\* parse::<isize>().unwrap()
InstructionOf(cap) ==
    LET n == ParseSigned(cap.num) IN
    IF ~n.ok THEN Err
    ELSE Ok([op |-> IF cap.op = "acc" THEN "ACC" ELSE "JMP", v |-> n.v])

RECURSIVE Split(_, _)
\* line.split(','): the fields between the commas (at least one, maybe empty)
Split(line, field) ==
    IF line = <<>> THEN <<field>>
    ELSE IF Head(line) = "," THEN <<field>> \o Split(Tail(line), <<>>)
    ELSE Split(Tail(line), Append(field, Head(line)))

RECURSIVE FlatMapAll(_, _)
\* the fields' flat_map(|num| num.parse()) collected into a Vec<usize>
FlatMapAll(fields, sofar) ==
    IF fields = <<>> THEN sofar
    ELSE FlatMapAll(Tail(fields), FlatMap(sofar, ParseUnsigned(Head(fields))))

parse_ticket(line) == FlatMapAll(Split(line, <<>>), <<>>)

\* ---- the day's line format, as the input description gives it
IsNumeral(str) ==
    \E k \in 0 .. 1 :
        /\ Len(str) > k
        /\ k = 1 => str[1] \in {"+", "-"}
        /\ \A j \in k + 1 .. Len(str) : str[j] \in Digits
NumeralValue(str) ==
    LET ds == IF str[1] \in Digits THEN str ELSE Tail(str)
        mag == DecVal(ds, 0)
    IN  IF str[1] = "-" THEN 0 - mag ELSE mag

\* day 8: the whole line is an operation, a space and a signed number
IsInstructionLine(line) ==
    /\ Len(line) >= 4
    /\ line[1] \in {"acc", "jmp"} /\ line[2] = "sp" /\ line[3] \in {"+", "-"}
    /\ \A j \in 4 .. Len(line) : line[j] \in Digits
\* day 8: an operation, a space and a signed number occur somewhere in the line
HasPattern(line) == \E i \in 1 .. Len(line) : MatchesAt(line, i)
FirstPattern(line) == CHOOSE i \in 1 .. Len(line) :
    MatchesAt(line, i) /\ \A j \in 1 .. i - 1 : ~MatchesAt(line, j)
PatternNumber(line) ==
    LET i == FirstPattern(line)
        last == CHOOSE e \in i + 3 .. Len(line) :
                    /\ \A j \in i + 3 .. e : line[j] \in DigitRun
                    /\ e = Len(line) \/ line[e + 1] \notin DigitRun
    IN  SubSeq(line, i + 2, last)
PatternInstruction(line) ==
    [op |-> IF line[FirstPattern(line)] = "acc" THEN "ACC" ELSE "JMP",
     v |-> NumeralValue(PatternNumber(line))]

\* day 16: every comma-separated field is a number
UnsignedFields(line) ==
    SelectSeq(Split(line, <<>>), LAMBDA f : f # <<>> /\ AllIn(f, Digits \cup {"+"}) /\ IsNumeral(f))
IsTicketLine(line) ==
    \A k \in 1 .. Len(Split(line, <<>>)) :
        LET f == Split(line, <<>>)[k] IN f # <<>> /\ AllIn(f, Digits)
RECURSIVE Values(_)
Values(fields) ==
    IF fields = <<>> THEN <<>>
    ELSE <<NumeralValue(Head(fields))>> \o Values(Tail(fields))

InitParse ==
    /\ overflow_checks = FALSE
    /\ IdleMain /\ IdleDay8 /\ IdleDay1 /\ IdleDay2 /\ IdleDay13
    /\ IdleDay16 /\ IdleDay7 /\ IdleDay4 /\ IdleCount7
    /\ parser \in {"read_to_ints", "parse_lines", "parse_ticket"}
    /\ pcp = "reading" /\ nread = 0 /\ out_p = <<>>
    /\ skipped = 0 /\ matched_p = <<>> /\ malformed = 0 /\ unfit = FALSE

\* day_1.rs:36, one line of contents.lines() through the flat_map
ReadToIntsLine ==
    /\ parser = "read_to_ints" /\ pcp = "reading" /\ nread < MaxLinesP
    /\ \E line \in LinesOver(Chars1) :
          LET r == ParseSigned(line) IN
          /\ out_p' = FlatMap(out_p, r)
          /\ skipped' = skipped + (IF r.ok THEN 0 ELSE 1)
          /\ malformed' = malformed + (IF IsNumeral(line) THEN 0 ELSE 1)
          /\ matched_p' = IF IsNumeral(line)
                          THEN Append(matched_p, NumeralValue(line)) ELSE matched_p
    /\ nread' = nread + 1
    /\ UNCHANGED <<parser, pcp, unfit, restParse>>

\* day_8.rs:35-42, one line of input.lines() through the flat_map and the map
ParseLinesLine ==
    /\ parser = "parse_lines" /\ pcp = "reading" /\ nread < MaxLinesP
    /\ \E line \in LinesOver(Toks8) :
          LET cap == Captures(line, 1)
              ins == IF cap.ok THEN InstructionOf(cap.v) ELSE Err
          IN
          /\ IF cap.ok /\ ~ins.ok
             THEN pcp' = "aborted" /\ out_p' = out_p     \* unwrap() on Err
             ELSE pcp' = pcp /\ out_p' = FlatMap(out_p, ins)
          /\ skipped' = skipped + (IF cap.ok THEN 0 ELSE 1)
          /\ malformed' = malformed + (IF IsInstructionLine(line) THEN 0 ELSE 1)
          /\ matched_p' = IF HasPattern(line) /\ IsNumeral(PatternNumber(line))
                          THEN Append(matched_p, PatternInstruction(line))
                          ELSE matched_p
          /\ unfit' = (HasPattern(line) /\ ~IsNumeral(PatternNumber(line)))
    /\ nread' = nread + 1
    /\ UNCHANGED <<parser, restParse>>

\* day_16.rs:155-157, parse_ticket(line): one call on one line
ParseTicketLine ==
    /\ parser = "parse_ticket" /\ pcp = "reading" /\ nread = 0
    /\ \E line \in LinesOver(Chars16) :
          /\ out_p' = parse_ticket(line)
          /\ skipped' = skipped + Len(Split(line, <<>>)) - Len(parse_ticket(line))
          /\ malformed' = malformed + (IF IsTicketLine(line) THEN 0 ELSE 1)
          /\ matched_p' = Values(UnsignedFields(line))
    /\ nread' = nread + 1
    /\ UNCHANGED <<parser, pcp, unfit, restParse>>

\* the end of the input: collect() returns
EndOfInput ==
    /\ pcp = "reading"
    /\ parser = "parse_ticket" => nread = 1
    /\ pcp' = "done"
    /\ UNCHANGED <<parser, nread, out_p, skipped, matched_p, unfit, malformed,
                   restParse>>

NextParse == ReadToIntsLine \/ ParseLinesLine \/ ParseTicketLine \/ EndOfInput

SpecParse == InitParse /\ [][NextParse]_vars

MaxTickets == 2
MaxTicketLen == 2
MaxRules == 2
MaxCount7 == 1
Values16 == 0 .. 2
Field16 == {"class", "row"}
Labels7 == {"shiny gold", "bright white", "muted yellow"}

\* the orders in which an iteration may visit the elements of a set
Orders(S) ==
    {s \in [1 .. Cardinality(S) -> S] :
        \A i, j \in 1 .. Cardinality(S) : i # j => s[i] # s[j]}

\* HashMap::insert
Insert(m, key, value) ==
    [k \in DOMAIN m \cup {key} |-> IF k = key THEN value ELSE m[k]]

\* ---- day 16 ----------------------------------------------------------
\* Constraint {lower_range, upper_range} in the input's format "a-b or c-d"
Constraint ==
    {[lower_range |-> <<q[1], q[2]>>, upper_range |-> <<q[3], q[4]>>] :
        q \in {x \in Values16 \X Values16 \X Values16 \X Values16 :
                  x[1] <= x[2] /\ x[2] < x[3] /\ x[3] <= x[4]}}
\* the constraint maps tried: at least one field
ConstraintMaps == UNION {[F -> Constraint] : F \in SUBSET Field16 \ {{}}}
TicketsOfLen(n) == [1 .. n -> Values16]

\* day_16.rs:64-67
validate(self, number) ==
    \/ (number >= self.lower_range[1] /\ number <= self.lower_range[2])
    \/ (number >= self.upper_range[1] /\ number <= self.upper_range[2])

\* day_16.rs:192-202
get_invalid_numbers(cons, ticket) ==
    SelectSeq(ticket, LAMBDA number :
        ~\E key \in DOMAIN cons : validate(cons[key], number))

RECURSIVE RemoveInvalid(_, _, _, _, _)
\* day_16.rs:269-275, the loop over the constraints for the number at i
RemoveInvalid(cons, val, i, number, order) ==
    IF order = <<>> THEN val
    ELSE LET key == Head(order)
             not_valid == ~validate(cons[key], number)
             val2 == IF not_valid THEN [val EXCEPT ![key] = @ \ {i}] ELSE val
         IN  RemoveInvalid(cons, val2, i, number, Tail(order))

RECURSIVE EachNumber(_, _, _, _, _)
\* day_16.rs:268-276, ticket.into_iter().enumerate().for_each
EachNumber(cons, val, ticket, i, order) ==
    IF i >= Len(ticket) THEN val
    ELSE EachNumber(cons, RemoveInvalid(cons, val, i, ticket[i + 1], order),
                    ticket, i + 1, order)

\* day_16.rs:252-277, the body of `for ticket in tickets`
ProcessTicket(cons, val, ticket, order) ==
    IF get_invalid_numbers(cons, ticket) # <<>> THEN val          \* continue
    ELSE LET initialised ==
                 IF DOMAIN val = {}                                 \* validity.is_empty()
                 THEN [key \in DOMAIN cons |-> 0 .. Len(ticket) - 1]
                 ELSE val
         IN  EachNumber(cons, initialised, ticket, 0, order)

\* day_16.rs:287, set.len() == 1
IsNonEmpty(set) == Cardinality(set) >= 1
IsSingleton(set) == Cardinality(set) = 1

\* day_16.rs:283-294, the maps `singletons` can be: every key whose set
\* passes the filter, with the first element of its set's iteration
Singletons(val) ==
    LET single == {key \in DOMAIN val : IsSingleton(val[key])}
    IN  {s \in [single -> UNION {val[key] : key \in single}] :
            \A key \in single : s[key] \in val[key]}

RECURSIVE EachSingleton(_, _, _, _, _)
\* day_16.rs:300-306, singletons.into_iter().for_each
EachSingleton(val, out, ins, singletons, order) ==
    IF order = <<>> THEN [validity |-> val, output |-> out, inserted |-> ins]
    ELSE LET key == Head(order)
             position == singletons[key]
         IN  EachSingleton([k \in DOMAIN val |-> val[k] \ {position}],
                           Insert(out, key, position), Append(ins, key),
                           singletons, Tail(order))

InitDay16 ==
    /\ constraints \in ConstraintMaps
    /\ ntickets = 0 /\ tlen = NoLen /\ seen16 = <<>> /\ any_valid = FALSE
    /\ validity = NoMap /\ output = NoMap /\ inserted16 = NoMap
    /\ pc16 = [r \in Runs |-> "tickets"]

\* day_16.rs:252-277, one ticket of `for ticket in tickets`, in both runs
NextTicket ==
    /\ \A r \in Runs : pc16[r] = "tickets"
    /\ ntickets < MaxTickets
    /\ \E ticket \in (IF tlen = NoLen
                      THEN UNION {TicketsOfLen(n) : n \in 0 .. MaxTicketLen}
                      ELSE TicketsOfLen(tlen)) :
       \E order \in [Runs -> Orders(DOMAIN constraints)] :
          LET valid == \A p \in 1 .. Len(ticket) :
                           \E key \in DOMAIN constraints :
                               validate(constraints[key], ticket[p])
              before == IF tlen = NoLen THEN [p \in 1 .. Len(ticket) |-> {}]
                        ELSE seen16
          IN
          /\ validity' = [r \in Runs |->
                            ProcessTicket(constraints, validity[r], ticket, order[r])]
          /\ tlen' = Len(ticket)
          /\ seen16' = IF valid
                       THEN [p \in 1 .. Len(ticket) |-> before[p] \cup {ticket[p]}]
                       ELSE before
          /\ any_valid' = (any_valid \/ valid)
    /\ ntickets' = ntickets + 1
    /\ UNCHANGED <<constraints, output, inserted16, pc16, restDay16>>

\* day_16.rs:279-280, the tickets are exhausted: output and keys are set up
TicketsDone ==
    /\ \A r \in Runs : pc16[r] = "tickets"
    /\ pc16' = [r \in Runs |-> "loop"]
    /\ UNCHANGED <<constraints, ntickets, tlen, seen16, any_valid, validity,
                   output, inserted16, restDay16>>

\* day_16.rs:282-311, one pass of `loop` in run r
LoopRound(r) ==
    /\ pc16[r] = "loop"
    /\ \E singletons \in Singletons(validity[r]) :
          IF DOMAIN singletons = {}
          THEN /\ pc16' = [pc16 EXCEPT ![r] = "aborted"]   \* failed to find singleton
               /\ UNCHANGED <<validity, output, inserted16>>
          ELSE \E order \in Orders(DOMAIN singletons) :
                  LET after == EachSingleton(validity[r], output[r], inserted16[r],
                                             singletons, order)
                  IN
                  /\ validity' = [validity EXCEPT ![r] = after.validity]
                  /\ output' = [output EXCEPT ![r] = after.output]
                  /\ inserted16' = [inserted16 EXCEPT ![r] = after.inserted]
                  /\ pc16' = [pc16 EXCEPT ![r] =
                                IF Cardinality(DOMAIN after.output)
                                       = Cardinality(DOMAIN validity[r])
                                THEN "returned" ELSE "loop"]
    /\ UNCHANGED <<constraints, ntickets, tlen, seen16, any_valid, restDay16>>

\* ---- day 7 -----------------------------------------------------------
\* Rule {label, contents}
Rule ==
    {[label |-> l, contents |-> c] :
        l \in Labels7,
        c \in UNION {[C -> 1 .. MaxCount7] : C \in SUBSET Labels7}}

RECURSIVE AddPairsReplacing(_, _, _)
\* the same with the contains_key test left out: each insert starts afresh
AddPairsReplacing(parent_map, parent, children) ==
    IF children = <<>> THEN parent_map
    ELSE AddPairsReplacing(Insert(parent_map, Head(children), {parent}),
                           parent, Tail(children))

RECURSIVE AddPairs(_, _, _)
\* day_7.rs:58-64, the (parent, child) pairs of one rule into parent_map
AddPairs(parent_map, parent, children) ==
    IF children = <<>> THEN parent_map
    ELSE LET child == Head(children)
             present == IF child \in DOMAIN parent_map THEN parent_map
                        ELSE Insert(parent_map, child, {})
         IN  AddPairs([present EXCEPT ![child] = @ \cup {parent}],
                      parent, Tail(children))

InitDay7 ==
    /\ nrules = 0 /\ seed \in Labels7
    /\ direct_containers = NoMap
    /\ possible_containers = [r \in Runs |-> {}]
    /\ to_check = NoMap /\ popped7 = NoMap /\ contains7 = {}
    /\ pc7 = [r \in Runs |-> "build"]

\* day_7.rs:56-64, one rule of rules.iter() in build_direct_containers
AddRule ==
    /\ \A r \in Runs : pc7[r] = "build"
    /\ nrules < MaxRules
    /\ \E rule \in Rule :
       \E order \in [Runs -> Orders(DOMAIN rule.contents)] :
          /\ direct_containers' = [r \in Runs |->
                AddPairs(direct_containers[r], rule.label, order[r])]
          /\ contains7' = contains7 \cup
                {<<rule.label, child>> : child \in DOMAIN rule.contents}
    /\ nrules' = nrules + 1
    /\ UNCHANGED <<seed, possible_containers, to_check, popped7, pc7, restDay7>>

\* day_7.rs:71-76, the map is built; the seed is queued
BuildDone ==
    /\ \A r \in Runs : pc7[r] = "build"
    /\ to_check' = [r \in Runs |-> <<seed>>]
    /\ pc7' = [r \in Runs |-> "search"]
    /\ UNCHANGED <<nrules, seed, direct_containers, possible_containers, popped7,
                   contains7, restDay7>>

\* day_7.rs:78-91, one pass of `while !to_check.is_empty()` in run r
CheckNext(r) ==
    /\ pc7[r] = "search" /\ to_check[r] # <<>>
    /\ LET next == Head(to_check[r])
           found == IF next \in DOMAIN direct_containers[r]
                    THEN {container \in direct_containers[r][next] :
                             container \notin possible_containers[r]}
                    ELSE {}
       IN  \E order \in Orders(found) :
              /\ possible_containers' =
                     [possible_containers EXCEPT ![r] = @ \cup found]
              /\ to_check' = [to_check EXCEPT ![r] = Tail(@) \o order]
              /\ popped7' = [popped7 EXCEPT ![r] = Append(@, next)]
    /\ UNCHANGED <<nrules, seed, direct_containers, contains7, pc7, restDay7>>

\* day_7.rs:94, the queue is empty: possible_containers is returned
Return7(r) ==
    /\ pc7[r] = "search" /\ to_check[r] = <<>>
    /\ pc7' = [pc7 EXCEPT ![r] = "returned"]
    /\ UNCHANGED <<nrules, seed, direct_containers, possible_containers, to_check,
                   popped7, contains7, restDay7>>

\* ---- the two calls under one specification ---------------------------
InitHashed ==
    /\ overflow_checks = FALSE
    /\ IdleMain /\ IdleDay8 /\ IdleDay1 /\ IdleDay2 /\ IdleDay13 /\ IdleParse
    /\ IdleDay4
    /\ IdleCount7
    /\ \/ InitDay16 /\ IdleDay7
       \/ InitDay7 /\ IdleDay16

NextHashed ==
    \/ NextTicket
    \/ TicketsDone
    \/ \E r \in Runs : LoopRound(r)
    \/ AddRule
    \/ BuildDone
    \/ \E r \in Runs : CheckNext(r)
    \/ \E r \in Runs : Return7(r)

SpecHashed == InitHashed /\ [][NextHashed]_vars

\* ---- Claims about get_valid_positions and find_all_containers ---------
Ended16 == \A r \in Runs : pc16[r] \in {"returned", "aborted"}
Ended7 == \A r \in Runs : pc7[r] = "returned"

\* C3: for the same input, get_valid_positions and find_all_containers give
\* the same result under every iteration order of their maps and sets: two
\* runs side by side end in equal results, or both abort.
C3_OrderIndependent ==
    /\ Ended16 =>
          /\ pc16[1] = pc16[2]
          /\ pc16[1] = "returned" => output[1] = output[2]
    /\ Ended7 => possible_containers[1] = possible_containers[2]

\* two runs that went through their maps in different orders (the fields
\* entered output in another order; the bags were checked in another order)
\* and returned a result
C3_Witness16 ==
    /\ Ended16 /\ pc16[1] = "returned" /\ inserted16[1] # inserted16[2]
    /\ Cardinality({output[1][key] : key \in DOMAIN output[1]}) >= 2
    /\ any_valid /\ ntickets >= 2
C3_Witness7 ==
    /\ Ended7 /\ popped7[1] # popped7[2]
    /\ Cardinality(possible_containers[1]) >= 2
C3_Witness == C3_Witness16 \/ C3_Witness7

\* the positions of a ticket, and the assignments of the fields to distinct
\* positions such that every valid ticket's value at the field's position
\* satisfies the field's constraint
Positions16 == IF tlen = NoLen THEN {} ELSE 0 .. tlen - 1
ConsistentAt(f, p) == \A v \in seen16[p + 1] : validate(constraints[f], v)
Assignments16 ==
    {m \in [DOMAIN constraints -> Positions16] :
        /\ \A f, g \in DOMAIN constraints : f # g => m[f] # m[g]
        /\ \A f \in DOMAIN constraints : ConsistentAt(f, m[f])}

\* C7: whenever exactly one assignment of the fields to distinct positions is
\* consistent with all valid tickets, get_valid_positions returns exactly
\* that assignment, without aborting.
C7_UniqueAssignmentReturned ==
    (Ended16 /\ Cardinality(Assignments16) = 1) =>
        \A r \in Runs : pc16[r] = "returned" /\ output[r] \in Assignments16

\* the same, given at least one valid ticket
C7_GivenAValidTicket ==
    (Ended16 /\ Cardinality(Assignments16) = 1 /\ any_valid) =>
        \A r \in Runs : pc16[r] = "returned" /\ output[r] \in Assignments16

\* ---- Claims about find_all_containers ----------------------------------
RECURSIVE ContainersIn(_, _)
\* the labels from which a label of S is reached in 1 .. n steps of
\* "directly contains"
ContainersIn(S, n) ==
    IF n = 0 THEN {}
    ELSE LET step == {pair[1] : pair \in {q \in contains7 : q[2] \in S}}
         IN  step \cup ContainersIn(step, n - 1)
AllContainers == ContainersIn({seed}, Cardinality(Labels7))

\* the labels run r has enqueued so far, in order
Enqueued(r) == popped7[r] \o to_check[r]
TimesEnqueued(r, label) ==
    Cardinality({k \in 1 .. Len(Enqueued(r)) : Enqueued(r)[k] = label})

\* C13 (as stated): for every rule set, cyclic ones included, and every
\* seed, find_all_containers terminates and returns exactly the labels from
\* which the seed is reachable by one or more "directly contains" edges, and
\* each label is enqueued for checking at most once.
C13_ContainersEnqueuedOnce ==
    \A r \in Runs :
        /\ pc7[r] = "returned" => possible_containers[r] = AllContainers
        /\ \A label \in Labels7 : TimesEnqueued(r, label) <= 1

\* C13 (amended): the same, but the seed may be enqueued a second time: it
\* is enqueued at the start and once more exactly when it is among its own
\* containers. The passes of the loop are bounded (each pass pops one
\* enqueued label), so the search terminates.
C13_ContainersSeedTwice ==
    \A r \in Runs :
        /\ pc7[r] = "returned" =>
              /\ possible_containers[r] = AllContainers
              /\ to_check[r] = <<>>
              /\ TimesEnqueued(r, seed) = (IF seed \in AllContainers THEN 2 ELSE 1)
        /\ \A label \in Labels7 \ {seed} : TimesEnqueued(r, label) <= 1
        /\ pc7[r] # "idle" => TimesEnqueued(r, seed) <= 2
        /\ Len(popped7[r]) <= Cardinality(Labels7) + 1

\* a cyclic rule set: the seed is among its own containers, reached through
\* another bag
C13_Witness ==
    /\ Ended7 /\ seed \in possible_containers[1]
    /\ <<seed, seed>> \notin contains7
    /\ Cardinality(possible_containers[1]) >= 2

\* ========================================================================
\* day_4.rs : Passport::is_valid_height
\* ========================================================================
\* A height is a sequence of symbols: decimal digits, the unit words "cm"
\* and "in" (each standing for its two letters) and "x" (any other
\* character).
MaxHgtLen == 5

Digits4 == {"0", "1", "2", "5", "6", "9"}
Symbols4 == Digits4 \cup {"cm", "in", "x"}
HgtInputs ==
    {NoHgt} \cup
    {[some |-> TRUE, s |-> str] :
        str \in UNION {[1 .. n -> Symbols4] : n \in 0 .. MaxHgtLen}}

U8_MAX == 255

DigitValue(d) ==
    CASE d = "0" -> 0 [] d = "1" -> 1 [] d = "2" -> 2
      [] d = "5" -> 5 [] d = "6" -> 6 [] d = "9" -> 9

RECURSIVE Decimal(_, _)
\* the value of a run of decimal digits, most significant first
Decimal(ds, sofar) ==
    IF ds = <<>> THEN sofar
    ELSE Decimal(Tail(ds), 10 * sofar + DigitValue(Head(ds)))

\* day_4.rs:194, hgt_re.captures(s) for ^(\d{2,3})(cm|in)$
HgtCaptures(s) ==
    LET n == Len(s) - 1 IN
    IF /\ n \in 2 .. 3
       /\ \A k \in 1 .. n : s[k] \in Digits4
       /\ s[n + 1] \in {"cm", "in"}
    THEN Ok([num |-> SubSeq(s, 1, n), unit |-> s[n + 1]])
    ELSE Err

\* str.parse::<u8>() of a run of digits: the value has to fit
ParseU8(ds) == IF Decimal(ds, 0) <= U8_MAX THEN Ok(Decimal(ds, 0)) ELSE Err

Bool4(b) == [tag |-> "Bool", v |-> b]
Abort4 == [tag |-> "Abort", v |-> FALSE]

\* day_4.rs:193-209
is_valid_height(hgt_opt) ==
    LET cap == IF hgt_opt.some THEN HgtCaptures(hgt_opt.s) ELSE Err
        num == IF cap.ok THEN ParseU8(cap.v.num) ELSE Err
    IN  IF cap.ok /\ ~num.ok THEN Abort4                 \* unwrap() on Err
        ELSE IF ~cap.ok THEN Bool4(FALSE)
        ELSE IF cap.v.unit = "cm" /\ num.v >= 150 /\ num.v <= 193 THEN Bool4(TRUE)
        ELSE IF cap.v.unit = "in" /\ num.v >= 59 /\ num.v <= 76 THEN Bool4(TRUE)
        ELSE Bool4(FALSE)

InitDay4 ==
    /\ overflow_checks = FALSE
    /\ IdleMain /\ IdleDay8 /\ IdleDay1 /\ IdleDay2 /\ IdleDay13 /\ IdleParse
    /\ IdleDay16 /\ IdleDay7 /\ IdleCount7
    /\ maybe_hgt \in HgtInputs
    /\ pc4 = "call" /\ result4 = FALSE

\* the call Passport::is_valid_height(maybe_hgt)
IsValidHeight ==
    /\ pc4 = "call"
    /\ LET r == is_valid_height(maybe_hgt) IN
       IF r.tag = "Abort"
       THEN pc4' = "aborted" /\ result4' = result4
       ELSE pc4' = "done" /\ result4' = r.v
    /\ UNCHANGED <<maybe_hgt, restDay4>>

NextDay4 == IsValidHeight

SpecDay4 == InitDay4 /\ [][NextDay4]_vars

\* ---- Claims about is_valid_height -------------------------------------
\* the field is a decimal number immediately followed by the unit, and the
\* number is within lo .. hi
NumberWithUnit(s, unit, lo, hi) ==
    /\ Len(s) >= 2
    /\ \A k \in 1 .. Len(s) - 1 : s[k] \in Digits4
    /\ s[Len(s)] = unit
    /\ Decimal(SubSeq(s, 1, Len(s) - 1), 0) >= lo
    /\ Decimal(SubSeq(s, 1, Len(s) - 1), 0) <= hi
HeightOk ==
    /\ maybe_hgt.some
    /\ \/ NumberWithUnit(maybe_hgt.s, "cm", 150, 193)
       \/ NumberWithUnit(maybe_hgt.s, "in", 59, 76)

\* C11: is_valid_height returns true exactly when the field is present and
\* is a decimal number followed by cm within 150..193 or by in within 59..76;
\* for every other input it returns false rather than aborting.
C11_HeightValid ==
    pc4 # "call" => (pc4 = "done" /\ result4 = HeightOk)

\* what the code does: the number has to be two or three digits long, and a
\* three-digit number above 255 aborts
TwoOrThreeDigits == maybe_hgt.some /\ Len(maybe_hgt.s) \in 3 .. 4
UnfitForU8 ==
    /\ maybe_hgt.some /\ HgtCaptures(maybe_hgt.s).ok
    /\ Decimal(HgtCaptures(maybe_hgt.s).v.num, 0) > U8_MAX
C11_HeightUpToU8 ==
    pc4 # "call" =>
        /\ pc4 = "aborted" <=> UnfitForU8
        /\ pc4 = "done" => result4 = (HeightOk /\ TwoOrThreeDigits)

\* ========================================================================
\* day_7.rs : count_bag_contents
\* ========================================================================
\* The rules tried have one rule per label, as in the input format, and
\* counts of 1 .. MaxCount12, far below the width of usize.
MaxCount12 == 2

Contents12 == UNION {[C -> 1 .. MaxCount12] : C \in SUBSET Labels7}
Rule12 == {[label |-> l, contents |-> c] : l \in Labels7, c \in Contents12}

\* sum::<usize>() of f over the entries of a contents list
RECURSIVE SumOver(_, _, _)
SumOver(keys, f(_), sofar) ==
    IF keys = {} THEN sofar
    ELSE LET k == CHOOSE x \in keys : TRUE
         IN  SumOver(keys \ {k}, f, sofar + f(k))

\* the deepest nesting an acyclic rule map allows; a deeper recursion only
\* happens on a cycle, where it never returns and overflows the stack
MaxDepth7 == Cardinality(Labels7)

RECURSIVE count_bag_contents_iter(_, _, _)
\* day_7.rs:111-117; Err stands for the stack overflow of an endless recursion
count_bag_contents_iter(map, bag, depth) ==
    IF depth > MaxDepth7 THEN Err
    ELSE IF bag \notin DOMAIN map THEN Ok(1)
    ELSE LET contents == map[bag]
             inner(b) == count_bag_contents_iter(map, b, depth + 1)
         IN  IF \E b \in DOMAIN contents : ~inner(b).ok THEN Err
             ELSE Ok(SumOver(DOMAIN contents,
                             LAMBDA b : inner(b).v * contents[b], 0) + 1)

\* day_7.rs:108, with the outer bag counted as well
CountWithOuterBag(map, bag) == count_bag_contents_iter(map, bag, 0)
\* day_7.rs:108, exclude the outer bag from the count
count_bag_contents(map, bag) ==
    LET n == count_bag_contents_iter(map, bag, 0)
    IN  IF n.ok THEN Ok(n.v - 1) ELSE Err

InitCount7 ==
    /\ overflow_checks = FALSE
    /\ IdleMain /\ IdleDay8 /\ IdleDay1 /\ IdleDay2 /\ IdleDay13 /\ IdleParse
    /\ IdleDay16 /\ IdleDay7 /\ IdleDay4
    /\ rules_in = {} /\ rule_map = <<>> /\ outer_bag = ""
    /\ pcc7 = "build" /\ count7 = 0

\* day_7.rs:99-106, one rule of rules.iter() into rule_map
InsertRule ==
    /\ pcc7 = "build"
    /\ \E rule \in Rule12 :
          /\ rule.label \notin DOMAIN rule_map
          /\ rule_map' = Insert(rule_map, rule.label, rule.contents)
          /\ rules_in' = rules_in \cup {rule}
    /\ UNCHANGED <<outer_bag, pcc7, count7, restCount7>>

\* day_7.rs:108, the rules are exhausted: the count for the outer bag
CountBagContents ==
    /\ pcc7 = "build"
    /\ \E bag \in Labels7 :
          LET r == count_bag_contents(rule_map, bag) IN
          /\ outer_bag' = bag
          /\ IF r.ok THEN pcc7' = "done" /\ count7' = r.v
             ELSE pcc7' = "aborted" /\ count7' = count7
    /\ UNCHANGED <<rules_in, rule_map, restCount7>>

NextCount7 == InsertRule \/ CountBagContents

SpecCount7 == InitCount7 /\ [][NextCount7]_vars

\* ---- Claims about count_bag_contents ------------------------------------
\* the bags directly inside bag b (none for a bag without a rule)
Inside(b) ==
    IF \E rule \in rules_in : rule.label = b
    THEN (CHOOSE rule \in rules_in : rule.label = b).contents
    ELSE <<>>

RECURSIVE ReachableIn(_, _)
\* the labels reached from the labels of S in 1 .. n steps of "directly contains"
ReachableIn(S, n) ==
    IF n = 0 THEN {}
    ELSE LET step == UNION {DOMAIN Inside(b) : b \in S}
         IN  step \cup ReachableIn(step, n - 1)
Acyclic12 == \A b \in Labels7 : b \notin ReachableIn({b}, Cardinality(Labels7))

RECURSIVE Nested(_)
\* the number of bags nested at any depth inside one bag b
Nested(b) ==
    LET c == Inside(b)
    IN  SumOver(DOMAIN c, LAMBDA x : c[x] * (1 + Nested(x)), 0)

\* C12: for every acyclic rule set and every outer bag, count_bag_contents
\* returns the number of bags nested at any depth inside one outer bag, the
\* outer bag itself not counted; 0 for a bag without rule or without contents.
C12_CountsNestedBags ==
    (pcc7 \in {"done", "aborted"} /\ Acyclic12) =>
        /\ pcc7 = "done"
        /\ count7 = Nested(outer_bag)
        /\ Inside(outer_bag) = <<>> => count7 = 0

\* an acyclic rule set nested two deep with counts above one
C12_Witness ==
    /\ pcc7 = "done" /\ Acyclic12 /\ count7 >= 6
    /\ \E b \in DOMAIN Inside(outer_bag) :
          /\ Inside(outer_bag)[b] >= 2
          /\ \E x \in DOMAIN Inside(b) : Inside(b)[x] >= 2

====
